---- MODULE Spec2Model ----
(***************************************************************************)
(* State-machine model of the SC4.0 chatbot backend:                       *)
(*   backend/utils/pdf_processor.py  (the chunker)                         *)
(*   backend/utils/rag_system.py     (vector store, retrieval, synthesis)  *)
(*   backend/services.py             (upload, delete, chat services)       *)
(* Text is a sequence of one-character strings; Python slices, strip and   *)
(* substring tests are computed on these sequences.                        *)
(***************************************************************************)
EXTENDS Integers, Sequences, FiniteSets, TLC

\* ------------------------------------------------------------------ bounds

\* longest text enumerated for the chunker
MaxLen == 4
\* largest chunk_size / overlap enumerated for the chunker
MaxSize == 3

\* ------------------------------------------------------------------ helpers

Min(a, b) == IF a < b THEN a ELSE b

\* Python s[a:b] for 0 <= a <= b: the end is clamped to the length.
Slice(s, a, b) == SubSeq(s, a + 1, Min(b, Len(s)))

\* "c" * n
Repeat(c, n) == [i \in 1..n |-> c]

\* ------------------------------------------------------------------ chunker
\* pdf_processor.py: split_text_into_chunks

VARIABLES text, chunk_size, overlap, start, chunks, cpc

chunkVars == <<text, chunk_size, overlap, start, chunks, cpc>>

\* ------------------------------------------------------------------ system state
\* app.py globals, the Chroma collection and the upload folder

VARIABLES
    store,            \* rag_system.collection: the set of stored chunk records
    documents,        \* app.py documents: list of document records
    files,            \* paths present in the upload folder
    uploads,          \* number of upload requests so far (source of fresh uuids)
    chat_sessions,    \* app.py chat_sessions: session id -> session
    next_session,     \* number of sessions created so far (source of fresh uuids)
    documents_json,   \* contents last written to documents.json
    sessions_json,    \* contents last written to chat_sessions.json
    resp,             \* the response to the latest request
    last_retrieve,    \* the retrieve_relevant_chunks call of the latest request
    last_generate,    \* the generate_response call of the latest request
    deleted_ok,       \* doc ids whose deletion returned 200
    handed            \* ids of the chunk records passed to add_document_chunks so far

sysVars == <<store, documents, files, uploads, chat_sessions, next_session,
             documents_json, sessions_json, resp, last_retrieve, last_generate,
             deleted_ok, handed>>

\* ------------------------------------------------------------------ model management state
\* app.py globals rag_system and CURRENT_MODEL_NAME, the RAGSystem objects
\* they refer to, and the requests that hold one of those objects

VARIABLES
    heap,                 \* the RAGSystem objects constructed so far: their fields
    rag_system,           \* app.py rag_system: index into heap
    CURRENT_MODEL_NAME,   \* app.py CURRENT_MODEL_NAME
    requests,             \* chat requests in flight: the object each was given
    model_resp            \* the response to the latest set-model request

swapVars == <<heap, rag_system, CURRENT_MODEL_NAME, requests, model_resp>>

\* ------------------------------------------------------------------ concurrent requests
\* upload and delete handlers running in several threads, a statement at a time

VARIABLES
    threads,          \* per thread: the handler it runs, its position, its locals
    upload_ok,        \* doc ids whose upload returned 201
    delete_begun      \* doc ids some delete request was made for

concVars == <<threads, upload_ok, delete_begun>>

VARIABLES
    renamed           \* session id -> title given by its latest successful rename

\* what the sequential services leave alone, besides the chunker's variables
otherVars == <<swapVars, concVars, renamed>>

vars == <<text, chunk_size, overlap, start, chunks, cpc, store, documents, files,
          uploads, chat_sessions, next_session, documents_json, sessions_json,
          resp, last_retrieve, last_generate, deleted_ok, handed, swapVars,
          concVars, renamed>>

\* ------------------------------------------------------------------ chunker operators

\* default arguments of split_text_into_chunks
DEFAULT_CHUNK_SIZE == 1000
DEFAULT_OVERLAP == 150

\* the three parameter checks, in the order of the code
InvalidParams(cs, ov) == cs <= 0 \/ ov < 0 \/ ov >= cs

\* a window one character short of chunk_size
ChunkEnd_Short(st, cs) == st + cs - 1

\* end = start + chunk_size
ChunkEnd(st, cs) == st + cs

\* an advance that forgets to step back by the overlap
NextStart_NoOverlap(st, cs, ov) == st + cs

\* an advance that stalls when overlap = chunk_size - 1
NextStart_Stalled(st, cs, ov) == st + cs - ov - 1

\* start += chunk_size - overlap
NextStart(st, cs, ov) == st + cs - ov

\* The while loop, run from offset st with the chunks emitted so far.
RECURSIVE ChunkLoop(_, _, _, _, _)
ChunkLoop(t, cs, ov, st, acc) ==
    IF ~(st < Len(t)) THEN acc
    ELSE LET end == ChunkEnd(st, cs)
             acc2 == Append(acc, Slice(t, st, end))
         IN  IF end >= Len(t) THEN acc2
             ELSE LET ns == NextStart(st, cs, ov)
                  IN  IF ns >= Len(t) THEN acc2
                      ELSE ChunkLoop(t, cs, ov, ns, acc2)

\* The whole function: ok = FALSE is the ValueError.
split_text_into_chunks(t, cs, ov) ==
    IF t = <<>> THEN [ok |-> TRUE, chunks |-> <<>>]
    ELSE IF InvalidParams(cs, ov) THEN [ok |-> FALSE, chunks |-> <<>>]
    ELSE [ok |-> TRUE, chunks |-> ChunkLoop(t, cs, ov, 0, <<>>)]

\* --- the same function as a step machine, one loop iteration per step

RECURSIVE SeqsUpTo(_, _)
SeqsUpTo(S, n) ==
    IF n = 0 THEN {<<>>}
    ELSE LET shorter == SeqsUpTo(S, n - 1)
         IN  shorter \cup {Append(s, c) : s \in {x \in shorter : Len(x) = n - 1}, c \in S}

ChunkTexts == SeqsUpTo({"a", "b"}, MaxLen)

\* every small text with every small parameter pair, valid or not, and the
\* default parameters on texts around the chunk size
ChunkInputs ==
    (ChunkTexts \X (-1..MaxSize) \X (-1..MaxSize))
    \cup {<<t, DEFAULT_CHUNK_SIZE, DEFAULT_OVERLAP>> :
             t \in {<<>>, <<"a", "b">>, Repeat("a", 1000), Repeat("a", 1001),
                    Repeat("a", 2500)}}

ChunkInit ==
    /\ \E inp \in ChunkInputs :
          /\ text = inp[1]
          /\ chunk_size = inp[2]
          /\ overlap = inp[3]
    /\ start = 0
    /\ chunks = <<>>
    /\ cpc = "entry"

\* lines 31-42: the empty-text return, the parameter checks, the loop set-up
ChunkEnter ==
    /\ cpc = "entry"
    /\ cpc' = IF text = <<>> THEN "returned"
              ELSE IF InvalidParams(chunk_size, overlap) THEN "raised"
              ELSE "loop"
    /\ start' = 0
    /\ chunks' = <<>>
    /\ UNCHANGED <<text, chunk_size, overlap>>
    /\ UNCHANGED <<sysVars, otherVars>>

\* lines 44-60: one evaluation of the while condition and the loop body
ChunkIterate ==
    /\ cpc = "loop"
    /\ IF ~(start < Len(text))
       THEN /\ cpc' = "returned"
            /\ UNCHANGED <<start, chunks>>
       ELSE LET end == ChunkEnd(start, chunk_size)
            IN  /\ chunks' = Append(chunks, Slice(text, start, end))
                /\ IF end >= Len(text)
                   THEN /\ cpc' = "returned"
                        /\ UNCHANGED start
                   ELSE /\ start' = NextStart(start, chunk_size, overlap)
                        /\ cpc' = IF start' >= Len(text) THEN "returned" ELSE "loop"
    /\ UNCHANGED <<text, chunk_size, overlap>>
    /\ UNCHANGED <<sysVars, otherVars>>


\* ------------------------------------------------------------------ strings

WHITESPACE == {" ", "\n", "\t", "\r"}

\* str.strip()
RECURSIVE LStrip(_)
LStrip(s) == IF s # <<>> /\ Head(s) \in WHITESPACE THEN LStrip(Tail(s)) ELSE s

RECURSIVE RStrip(_)
RStrip(s) ==
    IF s # <<>> /\ s[Len(s)] \in WHITESPACE THEN RStrip(SubSeq(s, 1, Len(s) - 1)) ELSE s

Strip(s) == RStrip(LStrip(s))

\* str.lower() on the letters that occur in model outputs
LowerChar(c) ==
    CASE c = "B" -> "b"
      [] c = "I" -> "i"
      [] c = "Y" -> "y"
      [] OTHER -> c

Lower(s) == [i \in 1..Len(s) |-> LowerChar(s[i])]

\* needle in hay
Contains(hay, needle) ==
    \E i \in 0..(Len(hay) - Len(needle)) : SubSeq(hay, i + 1, i + Len(needle)) = needle

\* the literal "I couldn't find any relevant information in the uploaded documents to answer your question."
NOT_FOUND_ANSWER ==
    <<"I", " ", "c", "o", "u", "l", "d", "n", "'", "t", " ", "f", "i", "n",
      "d", " ", "a", "n", "y", " ", "r", "e", "l", "e", "v", "a", "n", "t",
      " ", "i", "n", "f", "o", "r", "m", "a", "t", "i", "o", "n", " ", "i",
      "n", " ", "t", "h", "e", " ", "u", "p", "l", "o", "a", "d", "e", "d",
      " ", "d", "o", "c", "u", "m", "e", "n", "t", "s", " ", "t", "o", " ",
      "a", "n", "s", "w", "e", "r", " ", "y", "o", "u", "r", " ", "q", "u",
      "e", "s", "t", "i", "o", "n", ".">>

\* the literal "I couldn't find"
PHRASE_COULDNT_FIND ==
    <<"I", " ", "c", "o", "u", "l", "d", "n", "'", "t", " ", "f", "i", "n",
      "d">>

\* the literal 'not found in the provided context'
PHRASE_NOT_FOUND ==
    <<"n", "o", "t", " ", "f", "o", "u", "n", "d", " ", "i", "n", " ", "t",
      "h", "e", " ", "p", "r", "o", "v", "i", "d", "e", "d", " ", "c", "o",
      "n", "t", "e", "x", "t">>

\* the literal 'based on the context'
PHRASE_BASED_ON ==
    <<"b", "a", "s", "e", "d", " ", "o", "n", " ", "t", "h", "e", " ", "c",
      "o", "n", "t", "e", "x", "t">>

\* the literal '...'
ELLIPSIS ==
    <<".", ".", ".">>

\* a model output that cites the context, with surrounding whitespace
OUT_GROUNDED ==
    <<" ", " ", "B", "a", "s", "e", "d", " ", "o", "n", " ", "t", "h", "e",
      " ", "c", "o", "n", "t", "e", "x", "t", ",", " ", "y", "e", "s", ".",
      "\n">>

\* a model output that declines
OUT_DECLINE ==
    <<"I", " ", "c", "o", "u", "l", "d", "n", "'", "t", " ", "f", "i", "n",
      "d", " ", "i", "t", " ", "b", "a", "s", "e", "d", " ", "o", "n", " ",
      "t", "h", "e", " ", "c", "o", "n", "t", "e", "x", "t">>

\* a model output that does not mention the context
OUT_PLAIN ==
    <<"Y", "e", "s", ".">>

\* a model output that cites the context and reports the answer missing
OUT_NOT_FOUND ==
    <<"B", "a", "s", "e", "d", " ", "o", "n", " ", "t", "h", "e", " ", "c",
      "o", "n", "t", "e", "x", "t", ",", " ", "i", "t", " ", "i", "s", " ",
      "n", "o", "t", " ", "f", "o", "u", "n", "d", " ", "i", "n", " ", "t",
      "h", "e", " ", "p", "r", "o", "v", "i", "d", "e", "d", " ", "c", "o",
      "n", "t", "e", "x", "t", ".">>

\* ------------------------------------------------------------------ inputs

None == [none |-> TRUE]

\* upload requests modelled
MaxUploads == 2
\* sessions created
MaxSessions == 1
\* messages a session may hold
MaxMsgs == 2
\* longest document id filter in a chat request
MaxFilterLen == 5

\* chat requests in flight during model changes
MaxRequests == 2
\* RAGSystem objects constructed by set-model requests
MaxSwaps == 3
\* handler threads running concurrently
MaxThreads == 3

DocIds == 1..MaxUploads
SessionIds == 1..MaxSessions

\* file.filename after secure_filename
FILE_NAME == "report.pdf"

\* texts that extract_text_from_pdf returns: each page text followed by "\n"
\* (no page, one page without text, one page with text, a long page).  The
\* long one is cut into chunks of 1000, 1000 and 201 characters, the last of
\* which is 200 characters once stripped
UploadTexts ==
    { <<>>,
      <<"\n">>,
      <<"a", "b", "\n">>,
      Repeat("a", 1900) \o <<"\n">> }

\* chat messages
Messages == { <<>>, <<"h", "i">> }

\* document_ids of a chat request: absent, or a list of ids (known or not,
\* possibly repeated)
NoFilter == [given |-> FALSE, ids |-> <<>>]

ListFilter(ids) == [given |-> TRUE, ids |-> ids]

IdsOfLen(n) == [i \in 1..n |-> ((i - 1) % (MaxUploads + 1)) + 1]

Filters ==
    {NoFilter} \cup {ListFilter(IdsOfLen(n)) : n \in {0, 1, 3, MaxFilterLen}}

\* what model.generate_content(prompt).text gives, or the failure of the call
GENERATION_FAILS == [fails |-> TRUE, text |-> <<>>]

ModelReturns(t) == [fails |-> FALSE, text |-> t]

ModelOutcomes ==
    {GENERATION_FAILS, ModelReturns(OUT_GROUNDED), ModelReturns(OUT_DECLINE),
     ModelReturns(OUT_PLAIN), ModelReturns(OUT_NOT_FOUND)}

Range(s) == {s[i] : i \in 1..Len(s)}

\* Python truthiness of doc_ids_filter / document_ids_filter
Truthy(f) == f.given /\ f.ids # <<>>

\* ------------------------------------------------------------------ RAGSystem
\* rag_system.py

\* the methods class RAGSystem defines
RAGSystemMethods ==
    {"__init__", "add_document_chunks", "retrieve_relevant_chunks",
     "generate_response", "list_documents", "clear_collection"}

\* add_document_chunks: nothing for an empty list; otherwise collection.add,
\* whose exception is printed and not re-raised.  The call never raises.
add_document_chunks(st, chunk_info, add_ok) ==
    IF chunk_info = <<>> THEN st
    ELSE IF add_ok THEN st \cup Range(chunk_info)
    ELSE st

\* no metadata filter
NoWhere == [all |-> TRUE, doc_id_in |-> {}]

\* a where clause that is never built
WhereClause_Ignored(f) == NoWhere

\* the where clause built from doc_ids_filter
WhereClause(f) ==
    IF Truthy(f) THEN [all |-> FALSE, doc_id_in |-> Range(f.ids)] ELSE NoWhere

\* chunks a where clause admits
Matching(st, where) ==
    IF where.all THEN st ELSE {c \in st : c.doc_id \in where.doc_id_in}

\* distance between the embeddings of the query and of a chunk: the embedding
\* function is a library's; only its being a fixed function of the two texts
\* is kept, the values are arbitrary
Distance(q, c) == (Len(q) * (c.doc_id + 1) + 3 * c.chunk_index + Len(c.content)) % 7

RankKey(q, c) == Distance(q, c) * 10000 + c.doc_id * 100 + c.chunk_index

RECURSIVE Ranked(_, _)
Ranked(S, q) ==
    IF S = {} THEN <<>>
    ELSE LET m == CHOOSE c \in S : \A d \in S : RankKey(q, c) <= RankKey(q, d)
         IN  <<m>> \o Ranked(S \ {m}, q)

\* collection.query(query_texts=[q], n_results=k, where=where): nearest first
CollectionQuery(st, q, k, where) ==
    LET r == Ranked(Matching(st, where), q) IN SubSeq(r, 1, Min(k, Len(r)))

\* retrieve_relevant_chunks: a store exception is printed and [] returned
retrieve_relevant_chunks(st, q, k, f, query_ok) ==
    IF query_ok THEN CollectionQuery(st, q, k, WhereClause(f)) ELSE <<>>

\* a sources entry cut to 200 characters with no marker
SourceEntry_NoEllipsis(c) ==
    [source |-> c.source, content |-> Slice(c.content, 0, 200)]

\* a retrieval that drops from the collection what it returns
StoreAfterRetrieve_Evicts(st, result) == st \ Range(result)

\* the collection after retrieve_relevant_chunks: its only use of the
\* collection is collection.query, which reads
StoreAfterRetrieve(st, result) == st

\* one entry of sources
SourceEntry(c) ==
    [source |-> c.source,
     content |-> IF Len(c.content) > 200 THEN Slice(c.content, 0, 200) \o ELLIPSIS
                 ELSE c.content]

\* the heuristic with the grounding phrase looked up in the answer as written
Confidence_CaseSensitive(answer) ==
    IF \/ Contains(answer, PHRASE_COULDNT_FIND)
       \/ Contains(answer, PHRASE_NOT_FOUND)
       \/ ~Contains(answer, PHRASE_BASED_ON)
    THEN "low" ELSE "high"

\* the confidence heuristic
Confidence(answer) ==
    IF \/ Contains(answer, PHRASE_COULDNT_FIND)
       \/ Contains(answer, PHRASE_NOT_FOUND)
       \/ ~Contains(Lower(answer), PHRASE_BASED_ON)
    THEN "low" ELSE "high"

\* generate_response without the early return for an empty chunk list
generate_response_NoGuard(q, rel, outcome) ==
    IF outcome = GENERATION_FAILS
    THEN [raised |-> TRUE, calls |-> 1, data |-> None]
    ELSE [raised |-> FALSE, calls |-> 1,
          data |-> [answer |-> Strip(outcome.text),
                    sources |-> [i \in 1..Len(rel) |-> SourceEntry(rel[i])],
                    confidence |-> Confidence(Strip(outcome.text))]]

\* generate_response that answers with the fixed text when the model fails
generate_response_Substitute(q, rel, outcome) ==
    IF rel = <<>> \/ outcome = GENERATION_FAILS
    THEN [raised |-> FALSE, calls |-> IF rel = <<>> THEN 0 ELSE 1,
          data |-> [answer |-> NOT_FOUND_ANSWER, sources |-> <<>>, confidence |-> "low"]]
    ELSE [raised |-> FALSE, calls |-> 1,
          data |-> [answer |-> Strip(outcome.text),
                    sources |-> [i \in 1..Len(rel) |-> SourceEntry(rel[i])],
                    confidence |-> Confidence(Strip(outcome.text))]]

\* generate_response that tries the model a second time after a failure
generate_response_Retry(q, rel, outcome) ==
    IF rel = <<>>
    THEN [raised |-> FALSE, calls |-> 0,
          data |-> [answer |-> NOT_FOUND_ANSWER, sources |-> <<>>, confidence |-> "low"]]
    ELSE IF outcome = GENERATION_FAILS
    THEN [raised |-> TRUE, calls |-> 2, data |-> None]
    ELSE [raised |-> FALSE, calls |-> 1,
          data |-> [answer |-> Strip(outcome.text),
                    sources |-> [i \in 1..Len(rel) |-> SourceEntry(rel[i])],
                    confidence |-> Confidence(Strip(outcome.text))]]

\* generate_response: raised = TRUE is the re-raised exception; calls counts
\* the invocations of model.generate_content
generate_response(q, rel, outcome) ==
    IF rel = <<>>
    THEN [raised |-> FALSE, calls |-> 0,
          data |-> [answer |-> NOT_FOUND_ANSWER, sources |-> <<>>, confidence |-> "low"]]
    ELSE IF outcome = GENERATION_FAILS
    THEN [raised |-> TRUE, calls |-> 1, data |-> None]
    ELSE [raised |-> FALSE, calls |-> 1,
          data |-> [answer |-> Strip(outcome.text),
                    sources |-> [i \in 1..Len(rel) |-> SourceEntry(rel[i])],
                    confidence |-> Confidence(Strip(outcome.text))]]

\* what collection.delete(ids=None) does is the library's: it rejects the call
\* with an exception, deletes every record, or deletes nothing
DeleteNoneOutcomes == {"raises", "deletes_all", "deletes_nothing"}

\* clear_collection: delete(ids=None), then every id that get() still lists is
\* deleted by id; an exception of any of the calls is printed and the method
\* returns.  delete_ids_ok is the outcome of get() and of the delete by id.
clear_collection(st, delete_none, delete_ids_ok) ==
    IF delete_none = "raises" THEN st
    ELSE LET left == IF delete_none = "deletes_all" THEN {} ELSE st
         IN  IF left = {} THEN left
             ELSE IF delete_ids_ok THEN {} ELSE left

\* ------------------------------------------------------------------ services
\* services.py

\* app.py save_documents / save_chat_sessions: what the file then holds
SavedDocuments(docs) == [i \in 1..Len(docs) |-> docs[Len(docs) + 1 - i]]

SysInit ==
    /\ store = {}
    /\ documents = <<>>
    /\ files = {}
    /\ uploads = 0
    /\ chat_sessions = <<>>
    /\ next_session = 0
    /\ documents_json = <<>>
    /\ sessions_json = <<>>
    /\ resp = None
    /\ last_retrieve = None
    /\ last_generate = None
    /\ deleted_ok = {}
    /\ handed = <<>>

\* str(n) for n >= 0
DIGITS == <<"0", "1", "2", "3", "4", "5", "6", "7", "8", "9">>

RECURSIVE Str(_)
Str(n) == IF n < 10 THEN <<DIGITS[n + 1]>> ELSE Str(n \div 10) \o <<DIGITS[(n % 10) + 1]>>

\* str(uuid.uuid4()) of the n-th upload: a string no other upload gets
UuidStr(n) == <<"i", "d">> \o Str(n)

\* f"{doc_id}-chunk-{i}"
ChunkId(doc_id, i) ==
    UuidStr(doc_id) \o <<"-", "c", "h", "u", "n", "k", "-">> \o Str(i)

\* chunk records whose id leaves out the index
ChunkInfo_SharedId(doc_id, cks) ==
    [i \in 1..Len(cks) |->
        [id |-> UuidStr(doc_id) \o <<"-", "c", "h", "u", "n", "k">>, doc_id |-> doc_id,
         content |-> Strip(cks[i]), source |-> FILE_NAME, chunk_index |-> i - 1]]

\* the chunk records an upload builds from the chunker's output
ChunkInfo(doc_id, cks) ==
    [i \in 1..Len(cks) |->
        [id |-> ChunkId(doc_id, i - 1), doc_id |-> doc_id, content |-> Strip(cks[i]),
         source |-> FILE_NAME, chunk_index |-> i - 1]]

\* the ids of a list of chunk records
IdsOf(chunk_info) == [i \in 1..Len(chunk_info) |-> chunk_info[i].id]

\* handle_pdf_upload_service (the second, effective definition)
Upload(save_ok, extract_ok, extracted_text, add_ok) ==
    /\ uploads < MaxUploads
    /\ uploads' = uploads + 1
    /\ LET path == uploads + 1
           doc_id == uploads + 1
           split == split_text_into_chunks(extracted_text, 1000, DEFAULT_OVERLAP)
           chunk_info == ChunkInfo(doc_id, split.chunks)
       IN  IF ~save_ok
           THEN /\ resp' = [op |-> "upload", status |-> 500]
                /\ UNCHANGED <<store, documents, files, documents_json, handed>>
           ELSE /\ files' = files \cup {path}
                /\ IF ~extract_ok \/ ~split.ok
                   THEN /\ resp' = [op |-> "upload", status |-> 500]
                        /\ UNCHANGED <<store, documents, documents_json, handed>>
                   ELSE /\ documents' = Append(documents,
                               [id |-> doc_id, name |-> FILE_NAME,
                                chunks_count |-> Len(split.chunks), file_path |-> path])
                        /\ store' = add_document_chunks(store, chunk_info, add_ok)
                        /\ handed' = handed \o IdsOf(chunk_info)
                        /\ documents_json' = SavedDocuments(documents')
                        /\ resp' = [op |-> "upload", status |-> 201, document_id |-> doc_id,
                                    chunks_count |-> Len(split.chunks),
                                    add_failed |-> (split.chunks # <<>> /\ ~add_ok),
                                    chunks |-> split.chunks, chunk_info |-> chunk_info]
    /\ last_retrieve' = None
    /\ last_generate' = None
    /\ UNCHANGED <<chat_sessions, next_session, sessions_json, deleted_ok>>

\* the name of an uploaded image after secure_filename
IMAGE_NAME == "scan.png"

\* the chunk records upload_image builds
ImageChunkInfo(doc_id, cks) ==
    [i \in 1..Len(cks) |->
        [id |-> ChunkId(doc_id, i - 1), doc_id |-> doc_id, content |-> Strip(cks[i]),
         source |-> IMAGE_NAME, chunk_index |-> i - 1]]

\* upload_image.  ocr_image returns the stripped text, or "" after any error
\* of its own.  An image without text is removed and answered 400; when that
\* os.remove raises, the except clause tries the removal again and answers 500.
UploadImage(save_ok, extracted_text, add_ok, remove_ok) ==
    /\ uploads < MaxUploads
    /\ uploads' = uploads + 1
    /\ LET path == uploads + 1
           doc_id == uploads + 1
           split == split_text_into_chunks(extracted_text, 1000, DEFAULT_OVERLAP)
           chunk_info == ImageChunkInfo(doc_id, split.chunks)
       IN  IF ~save_ok
           THEN /\ resp' = [op |-> "upload_image", status |-> 500]
                /\ UNCHANGED <<store, documents, files, documents_json, handed>>
           ELSE IF Strip(extracted_text) = <<>>
           THEN /\ files' = IF remove_ok THEN files ELSE files \cup {path}
                /\ resp' = [op |-> "upload_image",
                            status |-> IF remove_ok THEN 400 ELSE 500]
                /\ UNCHANGED <<store, documents, documents_json, handed>>
           ELSE /\ files' = files \cup {path}
                /\ store' = add_document_chunks(store, chunk_info, add_ok)
                /\ handed' = handed \o IdsOf(chunk_info)
                /\ documents' = Append(documents,
                       [id |-> doc_id, name |-> IMAGE_NAME,
                        chunks_count |-> Len(split.chunks), file_path |-> path,
                        type |-> "image"])
                /\ documents_json' = SavedDocuments(documents')
                /\ resp' = [op |-> "upload_image", status |-> 201,
                            document_id |-> doc_id,
                            chunks_count |-> Len(split.chunks),
                            add_failed |-> ~add_ok,
                            chunks |-> split.chunks, chunk_info |-> chunk_info]
    /\ last_retrieve' = None
    /\ last_generate' = None
    /\ UNCHANGED <<chat_sessions, next_session, sessions_json, deleted_ok>>

\* filter of a Python list comprehension
RECURSIVE Without(_, _)
Without(docs, doc_id) ==
    IF docs = <<>> THEN <<>>
    ELSE IF Head(docs).id = doc_id THEN Without(Tail(docs), doc_id)
    ELSE <<Head(docs)>> \o Without(Tail(docs), doc_id)

\* rag_system.delete_document_chunks(doc_id) inside try/except Exception: the
\* attribute lookup raises AttributeError when the class has no such method,
\* and the handler logs it and goes on
DeleteChunksCall(st, doc_id) ==
    IF "delete_document_chunks" \in RAGSystemMethods
    THEN [raised |-> FALSE, store |-> {c \in st : c.doc_id # doc_id}]
    ELSE [raised |-> TRUE, store |-> st]

\* delete_document_service in which the exception of the chunk deletion is
\* not caught inside and ends the request
DeleteDocument_Abort(doc_id, remove_ok) ==
    IF \A i \in 1..Len(documents) : documents[i].id # doc_id
    THEN /\ resp' = [op |-> "delete_document", status |-> 404, doc_id |-> doc_id]
         /\ last_retrieve' = None
         /\ last_generate' = None
         /\ UNCHANGED <<store, documents, files, uploads, chat_sessions, next_session,
                        documents_json, sessions_json, deleted_ok, handed>>
    ELSE IF DeleteChunksCall(store, doc_id).raised
    THEN /\ resp' = [op |-> "delete_document", status |-> 500, doc_id |-> doc_id]
         /\ last_retrieve' = None
         /\ last_generate' = None
         /\ UNCHANGED <<store, documents, files, uploads, chat_sessions, next_session,
                        documents_json, sessions_json, deleted_ok, handed>>
    ELSE LET doc == documents[CHOOSE i \in 1..Len(documents) : documents[i].id = doc_id]
         IN  /\ store' = DeleteChunksCall(store, doc_id).store
             /\ documents' = Without(documents, doc_id)
             /\ files' = IF doc.file_path \in files /\ remove_ok
                         THEN files \ {doc.file_path} ELSE files
             /\ documents_json' = SavedDocuments(documents')
             /\ resp' = [op |-> "delete_document", status |-> 200, doc_id |-> doc_id,
                         chunks_raised |-> FALSE,
                         file_path |-> doc.file_path,
                         remove_failed |-> (doc.file_path \in files /\ ~remove_ok)]
             /\ deleted_ok' = deleted_ok \cup {doc_id}
             /\ last_retrieve' = None
             /\ last_generate' = None
             /\ UNCHANGED <<uploads, chat_sessions, next_session, sessions_json, handed>>

\* delete_document_service (the second, effective definition)
DeleteDocument(doc_id, remove_ok) ==
    IF \A i \in 1..Len(documents) : documents[i].id # doc_id
    THEN /\ resp' = [op |-> "delete_document", status |-> 404, doc_id |-> doc_id]
         /\ last_retrieve' = None
         /\ last_generate' = None
         /\ UNCHANGED <<store, documents, files, uploads, chat_sessions, next_session,
                        documents_json, sessions_json, deleted_ok, handed>>
    ELSE LET doc == documents[CHOOSE i \in 1..Len(documents) : documents[i].id = doc_id]
         IN  /\ store' = DeleteChunksCall(store, doc_id).store
             /\ documents' = Without(documents, doc_id)
             /\ files' = IF doc.file_path \in files /\ remove_ok
                         THEN files \ {doc.file_path} ELSE files
             /\ documents_json' = SavedDocuments(documents')
             /\ resp' = [op |-> "delete_document", status |-> 200, doc_id |-> doc_id,
                         chunks_raised |-> DeleteChunksCall(store, doc_id).raised,
                         file_path |-> doc.file_path,
                         remove_failed |-> (doc.file_path \in files /\ ~remove_ok)]
             /\ deleted_ok' = deleted_ok \cup {doc_id}
             /\ last_retrieve' = None
             /\ last_generate' = None
             /\ UNCHANGED <<uploads, chat_sessions, next_session, sessions_json, handed>>

\* the literal "New Chat"
NEW_CHAT == <<"N", "e", "w", " ", "C", "h", "a", "t">>

\* create_session_service; chat_sessions maps the ids of the sessions that
\* exist to their records, and a new session gets an id never used before
CreateSession ==
    /\ next_session < MaxSessions
    /\ next_session' = next_session + 1
    /\ chat_sessions' = chat_sessions @@
          ((next_session + 1) :> [messages |-> <<>>, title |-> NEW_CHAT])
    /\ sessions_json' = chat_sessions'
    /\ resp' = [op |-> "create_session", status |-> 201, session_id |-> next_session + 1]
    /\ last_retrieve' = None
    /\ last_generate' = None
    /\ UNCHANGED <<store, documents, files, uploads, documents_json, deleted_ok,
                   handed>>

\* the result-count policy of the chat service
MAX_TOP_K == 20

\* the policy without its cap
DynamicTopK_Uncapped(f) ==
    IF f.given /\ Len(f.ids) > 0 THEN Len(f.ids) * 5 ELSE 5

DynamicTopK(f) ==
    IF f.given /\ Len(f.ids) > 0 THEN Min(Len(f.ids) * 5, MAX_TOP_K) ELSE 5

\* message[:30] + ("..." if len(message) > 30 else "")
AutoTitle(message) ==
    Slice(message, 0, 30) \o (IF Len(message) > 30 THEN ELLIPSIS ELSE <<>>)

\* handle_chat_interaction_service; session_id 0 stands for a missing id
Chat(message, session_id, f, query_ok, outcome) ==
    IF message = <<>> \/ session_id = 0
    THEN /\ resp' = [op |-> "chat", status |-> 400, session_id |-> session_id,
                      message |-> message]
         /\ last_retrieve' = None
         /\ last_generate' = None
         /\ UNCHANGED <<store, documents, files, uploads, chat_sessions, next_session,
                        documents_json, sessions_json, deleted_ok, handed>>
    ELSE IF session_id \notin DOMAIN chat_sessions
    THEN /\ resp' = [op |-> "chat", status |-> 404, session_id |-> session_id,
                      message |-> message]
         /\ last_retrieve' = None
         /\ last_generate' = None
         /\ UNCHANGED <<store, documents, files, uploads, chat_sessions, next_session,
                        documents_json, sessions_json, deleted_ok, handed>>
    ELSE /\ Len(chat_sessions[session_id].messages) + 2 <= MaxMsgs
         /\ LET user_message == [role |-> "user", content |-> message]
                msgs1 == Append(chat_sessions[session_id].messages, user_message)
                title1 == IF Len(msgs1) = 1 THEN AutoTitle(message)
                          ELSE chat_sessions[session_id].title
                sess1 == [chat_sessions EXCEPT ![session_id] =
                             [messages |-> msgs1, title |-> title1]]
                top_k == DynamicTopK(f)
                rel == retrieve_relevant_chunks(store, message, top_k, f, query_ok)
                gen == generate_response(message, rel, outcome)
            IN  /\ store' = StoreAfterRetrieve(store, rel)
                /\ last_retrieve' = [query |-> message, top_k |-> top_k, filter |-> f,
                                     result |-> rel, query_ok |-> query_ok]
                /\ last_generate' = [chunks |-> rel, raised |-> gen.raised,
                                     calls |-> gen.calls, data |-> gen.data,
                                     model_failed |->
                                         (rel # <<>> /\ outcome = GENERATION_FAILS)]
                /\ IF gen.raised
                   THEN /\ chat_sessions' = sess1
                        /\ sessions_json' = sess1
                        /\ resp' = [op |-> "chat", status |-> 500,
                                    session_id |-> session_id]
                   ELSE LET bot_message ==
                                [role |-> "assistant", content |-> gen.data.answer,
                                 sources |-> gen.data.sources,
                                 confidence |-> gen.data.confidence]
                            sess2 == [sess1 EXCEPT ![session_id].messages =
                                         Append(msgs1, bot_message)]
                        IN  /\ chat_sessions' = sess2
                            /\ sessions_json' = sess2
                            /\ resp' = [op |-> "chat", status |-> 200,
                                        session_id |-> session_id,
                                        message |-> bot_message]
         /\ UNCHANGED <<documents, files, uploads, next_session, documents_json,
                        deleted_ok, handed>>

\* clear_all_data_service.  Neither clear_collection nor the two save
\* functions raise, so the except clause is never entered; the uploaded files
\* stay on disk.
ClearAll(delete_none, delete_ids_ok) ==
    /\ store' = clear_collection(store, delete_none, delete_ids_ok)
    /\ documents' = <<>>
    /\ documents_json' = SavedDocuments(documents')
    /\ chat_sessions' = <<>>
    /\ sessions_json' = chat_sessions'
    /\ resp' = [op |-> "clear_data", status |-> 200]
    /\ last_retrieve' = None
    /\ last_generate' = None
    /\ UNCHANGED <<files, uploads, next_session, deleted_ok, handed>>

\* upload requests: the storage and extraction failures, every text stored,
\* and the short text with the collection write failing
UploadInputs ==
    {<<FALSE, TRUE, <<>>, TRUE>>, <<TRUE, FALSE, <<>>, TRUE>>}
    \cup {<<TRUE, TRUE, t, TRUE>> : t \in UploadTexts}
    \cup {<<TRUE, TRUE, <<"a", "b", "\n">>, FALSE>>}

\* chat requests: rejected ones (empty message, missing or unknown session);
\* accepted ones with every filter and with every model outcome; and accepted
\* ones whose store query fails, where the model is never called
ChatInputs ==
    {<<m, s, NoFilter, TRUE, GENERATION_FAILS>> :
        m \in Messages, s \in {0, MaxSessions + 1}}
    \cup {<<(<<>>), s, NoFilter, TRUE, GENERATION_FAILS>> : s \in SessionIds}
    \cup {<<m, s, f, TRUE, ModelReturns(OUT_GROUNDED)>> :
             m \in Messages \ {<<>>}, s \in SessionIds, f \in Filters}
    \cup {<<m, s, NoFilter, TRUE, o>> :
             m \in Messages \ {<<>>}, s \in SessionIds, o \in ModelOutcomes}
    \cup {<<m, s, f, FALSE, GENERATION_FAILS>> :
             m \in Messages \ {<<>>}, s \in SessionIds,
             f \in {NoFilter, ListFilter(IdsOfLen(1))}}

\* clear requests: each outcome of delete(ids=None), and the delete by id
\* failing where it is reached
ClearInputs ==
    {<<o, TRUE>> : o \in DeleteNoneOutcomes} \cup {<<"deletes_nothing", FALSE>>}

\* texts ocr_image returns: nothing, or a text of two chunks
ImageTexts == {<<>>, Repeat("b", 1001)}

\* image upload requests: the storage failure, an image without text whose
\* removal succeeds or fails, and an image with text
UploadImageInputs ==
    {<<FALSE, <<>>, TRUE, TRUE>>, <<TRUE, <<>>, TRUE, TRUE>>, <<TRUE, <<>>, TRUE, FALSE>>}
    \cup {<<TRUE, t, TRUE, TRUE>> : t \in ImageTexts \ {<<>>}}

UploadRequest ==
    /\ \E inp \in UploadInputs : Upload(inp[1], inp[2], inp[3], inp[4])
    /\ UNCHANGED <<chunkVars, otherVars>>

UploadImageRequest ==
    /\ \E inp \in UploadImageInputs : UploadImage(inp[1], inp[2], inp[3], inp[4])
    /\ UNCHANGED <<chunkVars, otherVars>>

DeleteDocumentRequest ==
    /\ \E d \in DocIds, remove_ok \in BOOLEAN : DeleteDocument(d, remove_ok)
    /\ UNCHANGED <<chunkVars, otherVars>>

CreateSessionRequest == CreateSession /\ UNCHANGED <<chunkVars, otherVars>>

ClearAllRequest ==
    /\ \E inp \in ClearInputs : ClearAll(inp[1], inp[2])
    /\ UNCHANGED <<chunkVars, otherVars>>

ChatRequest ==
    /\ \E inp \in ChatInputs : Chat(inp[1], inp[2], inp[3], inp[4], inp[5])
    /\ UNCHANGED <<chunkVars, otherVars>>

\* ------------------------------------------------------------------ specifications

\* app.py AVAILABLE_MODELS
AVAILABLE_MODELS == <<"gemini-1.5-flash", "gemini-1.5-pro">>

\* the fields RAGSystem.__init__ sets from model_name in its n-th call; made
\* tells the constructions apart
NewRAGSystem(model_name, n) ==
    [model |-> [name |-> model_name, made |-> n],
     model_name |-> [name |-> model_name, made |-> n]]

\* app.py at start: CURRENT_MODEL_NAME = "gemini-1.5-flash" and
\* rag_system = RAGSystem(model_name=CURRENT_MODEL_NAME, ...)
SwapInit ==
    /\ heap = <<NewRAGSystem(AVAILABLE_MODELS[1], 1)>>
    /\ rag_system = 1
    /\ CURRENT_MODEL_NAME = AVAILABLE_MODELS[1]
    /\ requests = [r \in 1..MaxRequests |-> [pc |-> "idle"]]
    /\ model_resp = None

\* no handler thread running
ConcInit ==
    /\ threads = [t \in 1..MaxThreads |-> [pc |-> "idle"]]
    /\ upload_ok = {}
    /\ delete_begun = {}

OtherIdle == SwapInit /\ ConcInit /\ renamed = <<>>

ChunkIdle ==
    /\ text = <<>>
    /\ chunk_size = DEFAULT_CHUNK_SIZE
    /\ overlap = DEFAULT_OVERLAP
    /\ start = 0
    /\ chunks = <<>>
    /\ cpc = "idle"

Init == SysInit /\ ChunkIdle /\ OtherIdle

Next ==
    \/ UploadRequest
    \/ UploadImageRequest
    \/ DeleteDocumentRequest
    \/ CreateSessionRequest
    \/ ChatRequest
    \/ ClearAllRequest

\* the services, one request at a time
Spec == Init /\ [][Next]_vars

ChunkerInit == ChunkInit /\ SysInit /\ OtherIdle

ChunkerNext == ChunkEnter \/ ChunkIterate

\* one call of split_text_into_chunks on each enumerated input
SpecChunk == ChunkerInit /\ [][ChunkerNext]_vars

\* the same, the interpreter running the call to its end
SpecChunkFair == SpecChunk /\ WF_vars(ChunkerNext)

\* ------------------------------------------------------------------ model management
\* services.py set_current_model_service, app.py set_model, and the chat
\* handler as far as it uses the RAGSystem object it was given

\* values of data.get('model_name'): absent (None or ""), a name that is not
\* offered, and the offered names
MISSING_NAME == ""

ModelNameInputs == {MISSING_NAME, "gpt-4"} \cup Range(AVAILABLE_MODELS)

\* set_current_model_service: the fields of the object passed in are
\* overwritten with those of a newly constructed one
\* (current_rag_system.__dict__.update(new_rag_system.__dict__)); nothing in
\* it assigns CURRENT_MODEL_NAME.  construct_ok is the outcome of RAGSystem(...).
SetModelService(new_model_name, construct_ok) ==
    IF new_model_name = MISSING_NAME \/ new_model_name \notin Range(AVAILABLE_MODELS)
    THEN /\ model_resp' = [status |-> 400, name |-> new_model_name]
         /\ UNCHANGED <<heap, rag_system, CURRENT_MODEL_NAME, requests>>
    ELSE IF new_model_name = heap[rag_system].model_name.name
    THEN /\ model_resp' = [status |-> 200, name |-> new_model_name, changed |-> FALSE]
         /\ UNCHANGED <<heap, rag_system, CURRENT_MODEL_NAME, requests>>
    ELSE /\ Len(heap) < MaxSwaps + 1
         /\ IF ~construct_ok
            THEN /\ model_resp' = [status |-> 500, name |-> new_model_name]
                 /\ UNCHANGED <<heap, rag_system, CURRENT_MODEL_NAME, requests>>
            ELSE LET new_rag_system == NewRAGSystem(new_model_name, Len(heap) + 1)
                 IN  /\ heap' = [Append(heap, new_rag_system) EXCEPT
                                    ![rag_system] = new_rag_system]
                     /\ model_resp' = [status |-> 200, name |-> new_model_name,
                                       changed |-> TRUE]
                     /\ UNCHANGED <<rag_system, CURRENT_MODEL_NAME, requests>>

\* a chat request enters its handler and is given the object that rag_system
\* refers to; snapshot records the fields the object has at that moment
ChatEnter(r) ==
    /\ requests[r].pc = "idle"
    /\ requests' = [requests EXCEPT ![r] =
           [pc |-> "held", ref |-> rag_system, snapshot |-> heap[rag_system]]]
    /\ UNCHANGED <<heap, rag_system, CURRENT_MODEL_NAME, model_resp>>

\* generate_response of that object reads self.model
ChatGenerate(r) ==
    /\ requests[r].pc = "held"
    /\ requests' = [requests EXCEPT ![r] =
           [pc |-> "generated", ref |-> requests[r].ref,
            snapshot |-> requests[r].snapshot,
            used_model |-> heap[requests[r].ref].model]]
    /\ UNCHANGED <<heap, rag_system, CURRENT_MODEL_NAME, model_resp>>

\* the request returns
ChatReturn(r) ==
    /\ requests[r].pc = "generated"
    /\ requests' = [requests EXCEPT ![r] = [pc |-> "idle"]]
    /\ UNCHANGED <<heap, rag_system, CURRENT_MODEL_NAME, model_resp>>

SetModelServiceRequest ==
    /\ \E n \in ModelNameInputs, construct_ok \in BOOLEAN :
          SetModelService(n, construct_ok)
    /\ UNCHANGED <<chunkVars, sysVars, concVars, renamed>>

ChatEnterStep ==
    /\ \E r \in 1..MaxRequests : ChatEnter(r)
    /\ UNCHANGED <<chunkVars, sysVars, concVars, renamed>>

ChatGenerateStep ==
    /\ \E r \in 1..MaxRequests : ChatGenerate(r)
    /\ UNCHANGED <<chunkVars, sysVars, concVars, renamed>>

ChatReturnStep ==
    /\ \E r \in 1..MaxRequests : ChatReturn(r)
    /\ UNCHANGED <<chunkVars, sysVars, concVars, renamed>>

SwapServiceNext ==
    \/ SetModelServiceRequest
    \/ ChatEnterStep
    \/ ChatGenerateStep
    \/ ChatReturnStep

\* model changes through set_current_model_service while chat requests run
SpecSwapService == Init /\ [][SwapServiceNext]_vars

\* app.py set_model, cut where it writes the globals.  Up to the construction
\* of the new RAGSystem: the name is validated, compared with
\* CURRENT_MODEL_NAME, and RAGSystem(...) is called; construct_ok is the
\* outcome of that call.  threads[t] holds the locals new_rag_system and
\* new_model_name.
SetModelConstruct(t, new_model_name, construct_ok) ==
    /\ threads[t].pc = "idle"
    /\ IF new_model_name = MISSING_NAME \/ new_model_name \notin Range(AVAILABLE_MODELS)
       THEN /\ model_resp' = [status |-> 400, name |-> new_model_name]
            /\ UNCHANGED <<heap, threads>>
       ELSE IF new_model_name = CURRENT_MODEL_NAME
       THEN /\ model_resp' = [status |-> 200, name |-> new_model_name,
                              changed |-> FALSE]
            /\ UNCHANGED <<heap, threads>>
       ELSE /\ Len(heap) < MaxSwaps + 1
            /\ IF ~construct_ok
               THEN /\ model_resp' = [status |-> 500, name |-> new_model_name]
                    /\ UNCHANGED <<heap, threads>>
               ELSE /\ heap' = Append(heap, NewRAGSystem(new_model_name, Len(heap) + 1))
                    /\ threads' = [threads EXCEPT ![t] =
                           [pc |-> "constructed", new_rag_system |-> Len(heap) + 1,
                            new_model_name |-> new_model_name]]
                    /\ UNCHANGED model_resp
    /\ UNCHANGED <<rag_system, CURRENT_MODEL_NAME, requests, upload_ok, delete_begun>>

\* rag_system = new_rag_system
SetModelPublish(t) ==
    /\ threads[t].pc = "constructed"
    /\ rag_system' = threads[t].new_rag_system
    /\ threads' = [threads EXCEPT ![t].pc = "published"]
    /\ UNCHANGED <<heap, CURRENT_MODEL_NAME, requests, model_resp, upload_ok,
                   delete_begun>>

\* CURRENT_MODEL_NAME = new_model_name, and the 200 response
SetModelName(t) ==
    /\ threads[t].pc = "published"
    /\ CURRENT_MODEL_NAME' = threads[t].new_model_name
    /\ model_resp' = [status |-> 200, name |-> threads[t].new_model_name,
                      changed |-> TRUE]
    /\ threads' = [threads EXCEPT ![t] = [pc |-> "idle"]]
    /\ UNCHANGED <<heap, rag_system, requests, upload_ok, delete_begun>>

SetModelConstructStep ==
    /\ \E t \in 1..MaxThreads, n \in ModelNameInputs, construct_ok \in BOOLEAN :
          SetModelConstruct(t, n, construct_ok)
    /\ UNCHANGED <<chunkVars, sysVars, renamed>>

SetModelPublishStep ==
    /\ \E t \in 1..MaxThreads : SetModelPublish(t)
    /\ UNCHANGED <<chunkVars, sysVars, renamed>>

SetModelNameStep ==
    /\ \E t \in 1..MaxThreads : SetModelName(t)
    /\ UNCHANGED <<chunkVars, sysVars, renamed>>

SwapAppNext ==
    \/ SetModelConstructStep
    \/ SetModelPublishStep
    \/ SetModelNameStep

\* model changes through app.py's set_model, each request in its own thread
SpecSwapApp == Init /\ [][SwapAppNext]_vars

\* ------------------------------------------------------------------ session services
\* the "title" of a rename request body: absent (or null), a value that is
\* not a string (a number other than 0), or a string
NoTitle == [kind |-> "missing", text |-> <<>>]

NumberTitle == [kind |-> "number", text |-> <<>>]

StrTitle(t) == [kind |-> "str", text |-> t]

\* not new_title or not isinstance(new_title, str)
TitleRejected(new_title) == new_title.kind # "str" \/ new_title.text = <<>>

\* get_session_service
GetSession(session_id) ==
    /\ resp' = IF session_id \notin DOMAIN chat_sessions
               THEN [op |-> "get_session", status |-> 404, session_id |-> session_id]
               ELSE [op |-> "get_session", status |-> 200, session_id |-> session_id,
                     session |-> chat_sessions[session_id]]
    /\ last_retrieve' = None
    /\ last_generate' = None
    /\ UNCHANGED <<store, documents, files, uploads, chat_sessions, next_session,
                   documents_json, sessions_json, deleted_ok, handed, renamed>>

\* a rename that looks at the title before it looks for the session
RenameSession_TitleFirst(session_id, new_title) ==
    /\ last_retrieve' = None
    /\ last_generate' = None
    /\ UNCHANGED <<store, documents, files, uploads, next_session, documents_json,
                   deleted_ok, handed>>
    /\ IF TitleRejected(new_title)
       THEN /\ resp' = [op |-> "rename_session", status |-> 400,
                        session_id |-> session_id, new_title |-> new_title]
            /\ UNCHANGED <<chat_sessions, sessions_json, renamed>>
       ELSE IF session_id \notin DOMAIN chat_sessions
       THEN /\ resp' = [op |-> "rename_session", status |-> 404,
                        session_id |-> session_id, new_title |-> new_title]
            /\ UNCHANGED <<chat_sessions, sessions_json, renamed>>
       ELSE /\ chat_sessions' = [chat_sessions EXCEPT ![session_id].title =
                                    Strip(new_title.text)]
            /\ sessions_json' = chat_sessions'
            /\ renamed' = [s \in DOMAIN renamed \cup {session_id} |->
                              IF s = session_id THEN Strip(new_title.text)
                              ELSE renamed[s]]
            /\ resp' = [op |-> "rename_session", status |-> 200,
                        session_id |-> session_id, new_title |-> new_title]

\* rename_session_service; renamed records, for each session renamed with
\* success, the title its latest rename stored
RenameSession(session_id, new_title) ==
    /\ last_retrieve' = None
    /\ last_generate' = None
    /\ UNCHANGED <<store, documents, files, uploads, next_session, documents_json,
                   deleted_ok, handed>>
    /\ IF session_id \notin DOMAIN chat_sessions
       THEN /\ resp' = [op |-> "rename_session", status |-> 404,
                        session_id |-> session_id, new_title |-> new_title]
            /\ UNCHANGED <<chat_sessions, sessions_json, renamed>>
       ELSE IF TitleRejected(new_title)
       THEN /\ resp' = [op |-> "rename_session", status |-> 400,
                        session_id |-> session_id, new_title |-> new_title]
            /\ UNCHANGED <<chat_sessions, sessions_json, renamed>>
       ELSE /\ chat_sessions' = [chat_sessions EXCEPT ![session_id].title =
                                    Strip(new_title.text)]
            /\ sessions_json' = chat_sessions'
            /\ renamed' = [s \in DOMAIN renamed \cup {session_id} |->
                              IF s = session_id THEN Strip(new_title.text)
                              ELSE renamed[s]]
            /\ resp' = [op |-> "rename_session", status |-> 200,
                        session_id |-> session_id, new_title |-> new_title]

\* delete_session_service
DeleteSession(session_id) ==
    /\ last_retrieve' = None
    /\ last_generate' = None
    /\ UNCHANGED <<store, documents, files, uploads, next_session, documents_json,
                   deleted_ok, handed, renamed>>
    /\ IF session_id \in DOMAIN chat_sessions
       THEN /\ chat_sessions' = [s \in DOMAIN chat_sessions \ {session_id} |->
                                    chat_sessions[s]]
            /\ sessions_json' = chat_sessions'
            /\ resp' = [op |-> "delete_session", status |-> 200,
                        session_id |-> session_id]
       ELSE /\ resp' = [op |-> "delete_session", status |-> 404,
                        session_id |-> session_id]
            /\ UNCHANGED <<chat_sessions, sessions_json>>

\* str.capitalize() of the two roles a message can have
Capitalize(role) ==
    IF role = "user" THEN <<"U", "s", "e", "r">>
    ELSE <<"A", "s", "s", "i", "s", "t", "a", "n", "t">>

\* "\n".join(f"{role.capitalize()}: {content}" for each message)
RECURSIVE ExportLines(_)
ExportLines(messages) ==
    IF messages = <<>> THEN <<>>
    ELSE Capitalize(messages[1].role) \o <<":", " ">> \o messages[1].content
            \o (IF Len(messages) > 1 THEN <<"\n">> \o ExportLines(Tail(messages))
                ELSE <<>>)

\* export_session_chat_service
ExportSession(session_id) ==
    /\ resp' = IF session_id \notin DOMAIN chat_sessions
               THEN [op |-> "export_session", status |-> 404,
                     session_id |-> session_id]
               ELSE [op |-> "export_session", status |-> 200,
                     session_id |-> session_id,
                     chat_data |-> ExportLines(chat_sessions[session_id].messages)]
    /\ last_retrieve' = None
    /\ last_generate' = None
    /\ UNCHANGED <<store, documents, files, uploads, chat_sessions, next_session,
                   documents_json, sessions_json, deleted_ok, handed, renamed>>

\* session ids of requests: those the service may have handed out and one it
\* never hands out
SessionIdInputs == SessionIds \cup {MaxSessions + 1}

\* titles of rename requests
TitleInputs ==
    {NoTitle, NumberTitle, StrTitle(<<>>), StrTitle(<<" ", " ">>),
     StrTitle(<<" ", "T", " ">>)}

GetSessionRequest ==
    \E session_id \in SessionIdInputs :
        GetSession(session_id) /\ UNCHANGED <<chunkVars, swapVars, concVars>>

RenameSessionRequest ==
    \E session_id \in SessionIdInputs, new_title \in TitleInputs :
        RenameSession(session_id, new_title)
            /\ UNCHANGED <<chunkVars, swapVars, concVars>>

DeleteSessionRequest ==
    \E session_id \in SessionIdInputs :
        DeleteSession(session_id) /\ UNCHANGED <<chunkVars, swapVars, concVars>>

ExportSessionRequest ==
    \E session_id \in SessionIdInputs :
        ExportSession(session_id) /\ UNCHANGED <<chunkVars, swapVars, concVars>>

\* an upload of a short PDF that succeeds
UploadShortRequest ==
    Upload(TRUE, TRUE, <<"a", "b", "\n">>, TRUE) /\ UNCHANGED <<chunkVars, otherVars>>

SessionsNext ==
    \/ CreateSessionRequest
    \/ ChatRequest
    \/ GetSessionRequest
    \/ RenameSessionRequest
    \/ DeleteSessionRequest
    \/ ExportSessionRequest
    \/ DeleteDocumentRequest
    \/ UploadShortRequest

SpecSessions == Init /\ [][SessionsNext]_vars

\* ------------------------------------------------------------------ concurrent requests
\* Flask's development server (app.run) handles each request in a thread of
\* its own, and the handlers take no lock.  A handler is cut here at the
\* points where it reads or writes the shared documents list; threads[t] is
\* the position of thread t and the locals it holds there.

\* upload, up to documents.append(doc_info): the file is saved, its text
\* ("ab\n") extracted and split, and the record appended to the shared list
ConcUploadAppend(t) ==
    /\ threads[t].pc = "idle"
    /\ uploads < MaxUploads
    /\ uploads' = uploads + 1
    /\ LET path == uploads + 1
           doc_id == uploads + 1
           split == split_text_into_chunks(<<"a", "b", "\n">>, 1000, DEFAULT_OVERLAP)
       IN  /\ files' = files \cup {path}
           /\ documents' = Append(documents,
                  [id |-> doc_id, name |-> FILE_NAME,
                   chunks_count |-> Len(split.chunks), file_path |-> path])
           /\ threads' = [threads EXCEPT ![t] =
                  [pc |-> "appended", doc_id |-> doc_id, chunks |-> split.chunks]]
    /\ UNCHANGED <<store, chat_sessions, next_session, documents_json, sessions_json,
                   resp, last_retrieve, last_generate, deleted_ok, handed,
                   upload_ok, delete_begun>>

\* upload, from add_document_chunks to the 201 response; upload_ok collects
\* the ids of the documents whose upload returned success
ConcUploadReturn(t, add_ok) ==
    /\ threads[t].pc = "appended"
    /\ LET doc_id == threads[t].doc_id
           cks == threads[t].chunks
           chunk_info == ChunkInfo(doc_id, cks)
       IN  /\ store' = add_document_chunks(store, chunk_info, add_ok)
           /\ handed' = handed \o IdsOf(chunk_info)
           /\ documents_json' = SavedDocuments(documents)
           /\ resp' = [op |-> "upload", status |-> 201, document_id |-> doc_id,
                       chunks_count |-> Len(cks),
                       add_failed |-> (cks # <<>> /\ ~add_ok),
                       chunks |-> cks, chunk_info |-> chunk_info]
           /\ upload_ok' = upload_ok \cup {doc_id}
    /\ threads' = [threads EXCEPT ![t] = [pc |-> "idle"]]
    /\ last_retrieve' = None
    /\ last_generate' = None
    /\ UNCHANGED <<documents, files, uploads, chat_sessions, next_session,
                   sessions_json, deleted_ok, delete_begun>>

\* delete, up to the end of the list comprehension
\* [doc for doc in documents if doc['id'] != doc_id]: the record is looked up
\* (404 when absent), the chunks are deleted and the list of the records to
\* keep is built from the shared list as it is now; delete_begun collects the
\* ids of the documents a delete has found
ConcDeleteFilter(t, doc_id) ==
    /\ threads[t].pc = "idle"
    /\ IF \A i \in 1..Len(documents) : documents[i].id # doc_id
       THEN /\ resp' = [op |-> "delete_document", status |-> 404, doc_id |-> doc_id]
            /\ last_retrieve' = None
            /\ last_generate' = None
            /\ UNCHANGED <<store, threads, delete_begun>>
       ELSE /\ store' = DeleteChunksCall(store, doc_id).store
            /\ threads' = [threads EXCEPT ![t] =
                   [pc |-> "filtered", doc_id |-> doc_id,
                    doc |-> documents[CHOOSE i \in 1..Len(documents) :
                                         documents[i].id = doc_id],
                    kept |-> Without(documents, doc_id),
                    chunks_raised |-> DeleteChunksCall(store, doc_id).raised]]
            /\ delete_begun' = delete_begun \cup {doc_id}
            /\ UNCHANGED <<resp, last_retrieve, last_generate>>
    /\ UNCHANGED <<documents, files, uploads, chat_sessions, next_session,
                   documents_json, sessions_json, deleted_ok, handed, upload_ok>>

\* delete, from the assignment of the list that was built (documents = ... in
\* app.py, documents_list[:] = ... in services.py) to the 200 response
ConcDeleteReplace(t, remove_ok) ==
    /\ threads[t].pc = "filtered"
    /\ LET doc == threads[t].doc
       IN  /\ documents' = threads[t].kept
           /\ files' = IF doc.file_path \in files /\ remove_ok
                       THEN files \ {doc.file_path} ELSE files
           /\ documents_json' = SavedDocuments(documents')
           /\ resp' = [op |-> "delete_document", status |-> 200,
                       doc_id |-> threads[t].doc_id,
                       chunks_raised |-> threads[t].chunks_raised,
                       file_path |-> doc.file_path,
                       remove_failed |-> (doc.file_path \in files /\ ~remove_ok)]
           /\ deleted_ok' = deleted_ok \cup {threads[t].doc_id}
    /\ threads' = [threads EXCEPT ![t] = [pc |-> "idle"]]
    /\ last_retrieve' = None
    /\ last_generate' = None
    /\ UNCHANGED <<store, uploads, chat_sessions, next_session, sessions_json, handed,
                   upload_ok, delete_begun>>

ConcUploadAppendStep ==
    \E t \in 1..MaxThreads :
        ConcUploadAppend(t) /\ UNCHANGED <<chunkVars, swapVars, renamed>>

ConcUploadReturnStep ==
    \E t \in 1..MaxThreads, add_ok \in BOOLEAN :
        ConcUploadReturn(t, add_ok) /\ UNCHANGED <<chunkVars, swapVars, renamed>>

ConcDeleteFilterStep ==
    \E t \in 1..MaxThreads, doc_id \in DocIds :
        ConcDeleteFilter(t, doc_id) /\ UNCHANGED <<chunkVars, swapVars, renamed>>

ConcDeleteReplaceStep ==
    \E t \in 1..MaxThreads, remove_ok \in BOOLEAN :
        ConcDeleteReplace(t, remove_ok) /\ UNCHANGED <<chunkVars, swapVars, renamed>>

ConcNext ==
    \/ ConcUploadAppendStep
    \/ ConcUploadReturnStep
    \/ ConcDeleteFilterStep
    \/ ConcDeleteReplaceStep

SpecConc == Init /\ [][ConcNext]_vars

\* ------------------------------------------------------------------ chunker claims

ChunkLens == [i \in 1..Len(chunks) |-> Len(chunks[i])]

Scenario2500 ==
    /\ cpc = "returned"
    /\ Len(text) = 2500
    /\ chunk_size = 1000
    /\ overlap = 150

\* C4 as stated: a text of length 2500 with chunk_size=1000 and overlap=150
\* yields exactly 3 chunks of lengths 1000, 1000 and 650.
C4_Original == Scenario2500 => ChunkLens = <<1000, 1000, 650>>

\* C4 amended: a text of length 2500 with chunk_size=1000 and overlap=150
\* yields exactly 3 chunks of lengths 1000, 1000 and 800 (the third window
\* starts at 1700 = 2 * (1000 - 150)).
C4_Amended == Scenario2500 => ChunkLens = <<1000, 1000, 800>>

C4_Witness == Scenario2500 /\ Len(chunks) = 3

\* the call returned for a non-empty text and valid parameters
ReturnedValid ==
    /\ cpc = "returned"
    /\ Len(text) >= 1
    /\ ~InvalidParams(chunk_size, overlap)

\* Offsets that the overlap rule assigns to the chunks: the first chunk starts
\* at 0, each later one `overlap` characters before the end of its
\* predecessor, and the final one wherever it must start to end at the text end.
RECURSIVE OverlapOffset(_)
OverlapOffset(i) ==
    IF i = 1 THEN 0
    ELSE IF i = Len(chunks) THEN Len(text) - Len(chunks[i])
    ELSE OverlapOffset(i - 1) + Len(chunks[i - 1]) - overlap

OverlapWindow(i) == (OverlapOffset(i) + 1)..(OverlapOffset(i) + Len(chunks[i]))

\* C5: for a text of length L >= 1 and 0 <= overlap < chunk_size the chunks
\* are windows of the text that cover every position with no gap, and each
\* pair of consecutive chunks except possibly the final pair shares exactly
\* `overlap` characters, the suffix of one being the prefix of the next.
C5_CoverageAndOverlap ==
    ReturnedValid =>
        LET n == Len(chunks)
        IN  /\ n >= 1
            /\ \A i \in 1..n :
                  /\ OverlapOffset(i) >= 0
                  /\ chunks[i] = SubSeq(text, OverlapOffset(i) + 1,
                                        OverlapOffset(i) + Len(chunks[i]))
            /\ \A p \in 1..Len(text) : \E i \in 1..n : p \in OverlapWindow(i)
            /\ \A i \in 1..(n - 1) :
                  OverlapOffset(i + 1) <= OverlapOffset(i) + Len(chunks[i])
            /\ \A i \in 1..(n - 2) :
                  /\ Cardinality(OverlapWindow(i) \cap OverlapWindow(i + 1)) = overlap
                  /\ Len(chunks[i]) >= overlap
                  /\ Len(chunks[i + 1]) >= overlap
                  /\ SubSeq(chunks[i], Len(chunks[i]) - overlap + 1, Len(chunks[i]))
                        = SubSeq(chunks[i + 1], 1, overlap)

C5_Witness == ReturnedValid /\ Len(chunks) >= 3 /\ overlap >= 1

\* C6: for valid parameters chunk i (from 0) is
\* text[i*(chunk_size-overlap) : i*(chunk_size-overlap)+chunk_size]; every
\* chunk but the last has length chunk_size, the last is non-empty and ends at
\* the text end, emission stops at the first window that reaches the text end,
\* no chunk starts at or after the text end and none lies wholly inside its
\* predecessor.
C6_WindowFormula ==
    ReturnedValid =>
        LET n == Len(chunks)
            L == Len(text)
            step == chunk_size - overlap
            off(i) == (i - 1) * step
        IN  /\ n >= 1
            /\ \A i \in 1..n :
                  /\ chunks[i] = Slice(text, off(i), off(i) + chunk_size)
                  /\ off(i) < L
            /\ \A i \in 1..(n - 1) :
                  /\ Len(chunks[i]) = chunk_size
                  /\ off(i) + chunk_size < L
            /\ Len(chunks[n]) >= 1
            /\ off(n) + Len(chunks[n]) = L
            /\ off(n) + chunk_size >= L
            /\ \A i \in 2..n :
                  off(i) + Len(chunks[i]) > off(i - 1) + Len(chunks[i - 1])

C6_Witness ==
    /\ ReturnedValid
    /\ Len(chunks) >= 2
    /\ Len(chunks[Len(chunks)]) < chunk_size

\* C7: with chunk_size <= 0, overlap < 0 or overlap >= chunk_size the call
\* fails with the invalid-parameter error for every text, the empty text
\* included, and returns no chunk sequence.
C7_InvalidAlwaysRaises ==
    (cpc # "entry" /\ InvalidParams(chunk_size, overlap)) => cpc = "raised"

\* C8: for valid parameters every loop iteration moves the start offset
\* strictly forward, the loop runs at most length(text) times (one chunk per
\* iteration), and the call returns, overlap = chunk_size - 1 included.
C8_Termination ==
    /\ [][(cpc = "loop" /\ cpc' = "loop") => start' > start]_vars
    /\ [](Len(chunks) <= Len(text))
    /\ (~InvalidParams(chunk_size, overlap)) => <>(cpc = "returned")

C8_Witness ==
    /\ cpc = "returned"
    /\ chunk_size >= 2
    /\ overlap = chunk_size - 1
    /\ Len(chunks) >= 3

\* ------------------------------------------------------------------ service claims

Retrieved == last_retrieve # None

Generated == last_generate # None

UploadSucceeded == resp # None /\ resp.op = "upload" /\ resp.status = 201

\* C1: once the deletion of document d has reported success the vector store
\* holds no chunk with doc_id = d, and no later unfiltered
\* retrieve_relevant_chunks call returns a chunk whose doc_id is d.
C1_DeletedDocumentHasNoChunks ==
    /\ \A c \in store : c.doc_id \notin deleted_ok
    /\ (Retrieved /\ ~Truthy(last_retrieve.filter)) =>
          \A i \in 1..Len(last_retrieve.result) :
              last_retrieve.result[i].doc_id \notin deleted_ok

\* C2: when the collection write fails inside add_document_chunks the error
\* reaches the caller, so the upload that triggered it does not return 201.
C2_IngestFailureSurfaces == UploadSucceeded => ~resp.add_failed

\* C3: a retrieve_relevant_chunks call with a non-empty doc_ids_filter F
\* returns only chunks whose doc_id is in F; with an empty list or None it
\* applies no metadata filter, so the top_k results come from the full corpus.
C3_FilterScopesResults ==
    Retrieved =>
        LET r == last_retrieve
            F == {r.filter.ids[i] : i \in 1..Len(r.filter.ids)}
            inScope == {c \in store : c.doc_id \in F}
        IN  /\ \A i \in 1..Len(r.result) : r.result[i] \in store
            /\ (r.filter.given /\ F # {}) =>
                  /\ \A i \in 1..Len(r.result) : r.result[i].doc_id \in F
                  /\ r.query_ok =>
                        Len(r.result) = Min(r.top_k, Cardinality(inScope))
            /\ ((~r.filter.given \/ F = {}) /\ r.query_ok) =>
                  Len(r.result) = Min(r.top_k, Cardinality(store))

\* a filtered query answered with chunks while the store also holds chunks of
\* a document outside the filter
C3_Witness ==
    /\ Retrieved
    /\ Truthy(last_retrieve.filter)
    /\ last_retrieve.result # <<>>
    /\ \E c \in store : c.doc_id \notin Range(last_retrieve.filter.ids)

\* C9: the chat operation retrieves with top_k = min(5 * n, 20) for a
\* non-empty filter list of length n and with top_k = 5 for None or an empty
\* list: 15 for n = 3, 20 for n = 5, always within 5..20.
C9_TopKPolicy ==
    Retrieved =>
        LET n == Len(last_retrieve.filter.ids)
            k == last_retrieve.top_k
        IN  /\ k \in 5..20
            /\ (last_retrieve.filter.given /\ n > 0) =>
                  /\ 5 * n <= 20 => k = 5 * n
                  /\ 5 * n > 20 => k = 20
            /\ (last_retrieve.filter.given /\ n = 3) => k = 15
            /\ (last_retrieve.filter.given /\ n = 5) => k = 20
            /\ (~last_retrieve.filter.given \/ n = 0) => k = 5

C9_Witness ==
    /\ Retrieved
    /\ last_retrieve.filter.given
    /\ Len(last_retrieve.filter.ids) = 5
    /\ last_retrieve.top_k = 20

\* C10: generate_response on an empty chunk sequence returns the fixed
\* not-found answer with sources = [] and confidence = "low" and makes no
\* call to the generative model.
C10_EmptyChunksNoModelCall ==
    (Generated /\ last_generate.chunks = <<>>) =>
        /\ ~last_generate.raised
        /\ last_generate.calls = 0
        /\ last_generate.data.answer = NOT_FOUND_ANSWER
        /\ last_generate.data.sources = <<>>
        /\ last_generate.data.confidence = "low"

\* the chat answered from an empty retrieval although the store holds chunks
C10_Witness ==
    /\ Generated
    /\ last_generate.chunks = <<>>
    /\ store # {}
    /\ resp.op = "chat"
    /\ resp.status = 200
    /\ resp.message.content = NOT_FOUND_ANSWER

\* C11: generate_response called with a non-empty chunk sequence invokes the
\* generative model exactly once, whether the invocation succeeds or fails (no
\* retry), and a chat request that ends in the generation error has made that
\* one invocation and no other.
C11_ModelInvokedOnce ==
    /\ (Generated /\ last_generate.chunks # <<>>) => last_generate.calls = 1
    /\ (Generated /\ last_generate.raised) =>
          /\ last_generate.calls = 1
          /\ resp.op = "chat"
          /\ resp.status = 500

\* a generation that failed on retrieved chunks
C11_Witness ==
    /\ Generated
    /\ last_generate.chunks # <<>>
    /\ last_generate.raised
    /\ last_generate.calls = 1

\* the latest generate_response call returned a response
Answered == Generated /\ ~last_generate.raised

\* C12: the confidence generate_response returns is "low" if the trimmed
\* answer contains "I couldn't find" or "not found in the provided context",
\* or does not contain "based on the context" in any letter case, and "high"
\* otherwise; no other value is returned.  Of the model outputs only the one
\* that cites the context without declining is rated "high".
C12_ConfidenceHeuristic ==
    Answered =>
        LET a == last_generate.data.answer
            conf == last_generate.data.confidence
            declines == \/ Contains(a, PHRASE_COULDNT_FIND)
                        \/ Contains(a, PHRASE_NOT_FOUND)
            grounded == \E i \in 0..(Len(a) - Len(PHRASE_BASED_ON)) :
                           Lower(SubSeq(a, i + 1, i + Len(PHRASE_BASED_ON)))
                              = PHRASE_BASED_ON
        IN  /\ conf \in {"high", "low"}
            /\ a = Strip(a)
            /\ conf = "low" <=> (declines \/ ~grounded)
            /\ a = Strip(OUT_GROUNDED) => conf = "high"
            /\ a \in {Strip(OUT_DECLINE), Strip(OUT_PLAIN), Strip(OUT_NOT_FOUND),
                      NOT_FOUND_ANSWER} => conf = "low"

\* an answer rated "high" whose grounding phrase is capitalised
C12_Witness ==
    /\ Answered
    /\ last_generate.chunks # <<>>
    /\ last_generate.data.confidence = "high"
    /\ ~Contains(last_generate.data.answer, PHRASE_BASED_ON)
    /\ Contains(Lower(last_generate.data.answer), PHRASE_BASED_ON)

\* C13: a successful generate_response on chunks c1..cn returns sources with
\* exactly n entries in the order of the chunks; entry i pairs the source name
\* of ci with the content of ci, unchanged when it has at most 200 characters
\* and cut to its first 200 characters followed by "..." when it has more.
C13_SourcesMirrorChunks ==
    (Answered /\ last_generate.chunks # <<>>) =>
        LET cs == last_generate.chunks
            src == last_generate.data.sources
        IN  /\ Len(src) = Len(cs)
            /\ \A i \in 1..Len(cs) :
                  /\ src[i].source = cs[i].source
                  /\ Len(cs[i].content) <= 200 => src[i].content = cs[i].content
                  /\ Len(cs[i].content) > 200 =>
                        /\ Len(src[i].content) = 203
                        /\ SubSeq(src[i].content, 1, 200) = SubSeq(cs[i].content, 1, 200)
                        /\ SubSeq(src[i].content, 201, 203) = <<".", ".", ".">>

\* sources built from a chunk of more than 200 characters, one of exactly 200
\* and a shorter one
C13_Witness ==
    /\ Answered
    /\ resp.status = 200
    /\ \E i, j, k \in 1..Len(last_generate.chunks) :
          /\ Len(last_generate.chunks[i].content) > 200
          /\ Len(last_generate.chunks[j].content) = 200
          /\ Len(last_generate.chunks[k].content) < 200
          /\ resp.message.sources[j].content = last_generate.chunks[j].content

\* the model call of the latest chat request failed
ModelFailed == Generated /\ last_generate.model_failed

\* C14: when the generative model call fails, generate_response raises and
\* returns no answer; the chat request is answered with status 500 and no
\* message, and the only message it adds to any session is the user's own: no
\* assistant message, partial or substitute, is stored or returned.
C14_GenerationFailureSurfaces ==
    /\ [](ModelFailed =>
             /\ last_generate.raised
             /\ last_generate.data = None
             /\ resp.op = "chat"
             /\ resp.status = 500
             /\ "message" \notin DOMAIN resp)
    /\ [][ModelFailed' =>
             /\ DOMAIN chat_sessions' = DOMAIN chat_sessions
             /\ sessions_json' = chat_sessions'
             /\ \A s \in DOMAIN chat_sessions :
                   LET old == chat_sessions[s].messages
                       new == chat_sessions'[s].messages
                   IN  /\ Len(new) <= Len(old) + 1
                       /\ SubSeq(new, 1, Len(old)) = old
                       /\ \A i \in (Len(old) + 1)..Len(new) :
                             new[i] = [role |-> "user",
                                       content |-> last_retrieve'.query]]_vars

\* a failed generation whose session ends with the user's message
C14_Witness ==
    /\ ModelFailed
    /\ resp.status = 500
    /\ \E s \in DOMAIN chat_sessions :
          LET m == chat_sessions[s].messages
          IN  m # <<>> /\ m[Len(m)].role = "user"

\* C15: a vector-store error raised during the similarity query is not
\* swallowed: retrieve_relevant_chunks passes it to its caller as a failure,
\* so the chat request that ran the query does not complete as if the query
\* had matched nothing.
C15_StoreErrorPropagates ==
    (Retrieved /\ ~last_retrieve.query_ok) =>
        /\ resp.status # 200
        /\ "message" \notin DOMAIN resp

\* C16: a chat request with a non-empty message on an existing session whose
\* retrieval yields no chunks (empty store, no match, or a filter that matches
\* nothing) is answered with status 200 and an assistant message of
\* confidence "low" with empty sources, which is also the message stored last
\* in a session; it is never answered with an error.
C16_EmptyRetrievalIsGraceful ==
    (Retrieved /\ last_retrieve.result = <<>>) =>
        /\ last_retrieve.query # <<>>
        /\ resp.op = "chat"
        /\ resp.status = 200
        /\ resp.message.role = "assistant"
        /\ resp.message.confidence = "low"
        /\ resp.message.sources = <<>>
        /\ \E s \in DOMAIN chat_sessions :
              LET m == chat_sessions[s].messages
              IN  /\ Len(m) >= 2
                  /\ m[Len(m)] = resp.message
                  /\ m[Len(m) - 1] = [role |-> "user", content |-> last_retrieve.query]

\* a filter that matches nothing in a store that holds chunks
C16_Witness ==
    /\ Retrieved
    /\ last_retrieve.result = <<>>
    /\ last_retrieve.query_ok
    /\ Truthy(last_retrieve.filter)
    /\ store # {}
    /\ resp.status = 200

\* the latest request was a document deletion
Deleted == resp # None /\ resp.op = "delete_document"

\* C17: document deletion is idempotent: every deletion request, the one for
\* a doc_id that was never uploaded or was already deleted included, leaves
\* the document absent and reports no error.
C17_DeleteIsIdempotent ==
    Deleted =>
        /\ \A i \in 1..Len(documents) : documents[i].id # resp.doc_id
        /\ resp.status = 200

\* C18: in delete_document_service for a listed document a failing sub-step
\* neither rolls back nor prevents the others: when the chunk-store deletion
\* raises (the store is left as it was) the record is still removed from the
\* documents list and the file removal still attempted (the file is gone unless
\* that removal failed too), and when the file removal fails the record stays
\* removed; in each case the documents list is saved and the call reports 200.
C18_DeletePartialFailure ==
    [][(resp' # None /\ resp'.op = "delete_document"
          /\ \E i \in 1..Len(documents) : documents[i].id = resp'.doc_id) =>
        LET d == resp'.doc_id
            doc == documents[CHOOSE i \in 1..Len(documents) : documents[i].id = d]
            listed(x) == x.id # d
        IN  /\ resp'.status = 200
            /\ documents' = SelectSeq(documents, listed)
            /\ documents_json' = SavedDocuments(documents')
            /\ resp'.chunks_raised => store' = store
            /\ doc.file_path \in files =>
                  (doc.file_path \in files' <=> resp'.remove_failed)
            /\ resp'.remove_failed =>
                  \A i \in 1..Len(documents') : documents'[i].id # d]_vars

\* a deletion that reported success although the chunk deletion raised and
\* the file could not be removed
C18_Witness ==
    /\ Deleted
    /\ resp.status = 200
    /\ resp.chunks_raised
    /\ resp.remove_failed
    /\ resp.file_path \in files
    /\ \A i \in 1..Len(documents) : documents[i].id # resp.doc_id
    /\ documents_json = SavedDocuments(documents)

\* the latest request was the clearing of all data, answered with success
Cleared == resp # None /\ resp.op = "clear_data" /\ resp.status = 200

\* C19: clear_collection removes all chunks unconditionally, so whenever
\* clear_all_data_service reports success the vector store, the documents
\* list and the chat sessions are all empty.
C19_ClearRemovesEverything ==
    Cleared =>
        /\ store = {}
        /\ documents = <<>>
        /\ DOMAIN chat_sessions = {}

\* the latest request was an upload (PDF or image) that built chunk records
\* and passed them to add_document_chunks
HandedOver ==
    resp # None /\ resp.op \in {"upload", "upload_image"} /\ resp.status = 201

\* C20: for every upload the chunk records built for the new document follow
\* the chunker's output one to one, with chunk_index 0..n-1 in that order and
\* id "<doc_id>-chunk-<chunk_index>"; hence after any sequence of uploads no
\* two chunk records handed to the store share an id.
C20_ChunkIdsUnique ==
    /\ HandedOver =>
          LET ci == resp.chunk_info
              n == Len(resp.chunks)
          IN  /\ Len(ci) = n
              /\ resp.chunks_count = n
              /\ \A i \in 1..n :
                    /\ ci[i].chunk_index = i - 1
                    /\ ci[i].doc_id = resp.document_id
                    /\ ci[i].content = Strip(resp.chunks[i])
                    /\ ci[i].id = UuidStr(resp.document_id)
                                     \o <<"-", "c", "h", "u", "n", "k", "-">>
                                     \o Str(ci[i].chunk_index)
              /\ (resp.document_id = 2 /\ n >= 2) =>
                    ci[2].id = <<"i", "d", "2", "-", "c", "h", "u", "n", "k", "-", "1">>
              /\ Len(handed) >= n
              /\ \A i \in 1..n : handed[Len(handed) - n + i] = ci[i].id
    /\ \A i, j \in 1..Len(handed) : handed[i] = handed[j] => i = j
    /\ \A c, d \in store : c.id = d.id => c = d

\* a second upload of several chunks after an earlier one of several chunks
C20_Witness ==
    /\ HandedOver
    /\ resp.document_id = 2
    /\ Len(resp.chunk_info) >= 2
    /\ Len(handed) >= Len(resp.chunk_info) + 2

C22_RetrieveIsReadOnly ==
    [][Retrieved' => (store' = store /\ documents' = documents
                        /\ documents_json' = documents_json)]_vars

\* retrievals over a store with chunks: one with results, and here one that
\* hit a store error
C22_Witness ==
    /\ Retrieved
    /\ ~last_retrieve.query_ok
    /\ store # {}
    /\ documents # <<>>

\* C23: a runtime model swap constructs a new client and republishes the
\* reference to it; it never mutates the fields of the RAG system object that
\* an in-flight request already holds, so the object a request holds keeps the
\* fields it had when the request got it, and the model the request uses
\* comes from the same construction as the model_name it was given.
C23_SwapLeavesHeldObjects ==
    \A r \in 1..MaxRequests :
        requests[r].pc # "idle" =>
            /\ heap[requests[r].ref] = requests[r].snapshot
            /\ requests[r].pc = "generated" =>
                  requests[r].used_model.made = requests[r].snapshot.model_name.made

UnknownSession(r) ==
    /\ r.op \in {"get_session", "rename_session", "delete_session",
                 "export_session", "chat"}
    /\ r.session_id # 0
    /\ r.session_id \notin DOMAIN chat_sessions

UnknownDocument(r) ==
    /\ r.op = "delete_document"
    /\ \A i \in 1..Len(documents) : documents[i].id # r.doc_id

NotFoundChangesNothing ==
    /\ resp'.status = 404
    /\ chat_sessions' = chat_sessions
    /\ sessions_json' = sessions_json
    /\ documents' = documents
    /\ documents_json' = documents_json
    /\ store' = store
    /\ ~Retrieved'
    /\ ~Generated'

\* C24 as stated: every request that names a session id absent from the
\* session map (get, rename, delete, export, chat) or deletes a document id
\* absent from the documents list returns 404, leaves the sessions, the
\* documents and the vector store unchanged, and calls neither retrieval nor
\* generation.
C24_UnknownIdIsNotFound ==
    [][(resp' # None /\ (UnknownSession(resp') \/ UnknownDocument(resp')))
          => NotFoundChangesNothing]_vars

\* C24, amended: the same, for chat only when the request carries a message;
\* a chat request without a message is rejected with 400 before the session
\* is looked up.
C24_UnknownIdIsNotFound_Amended ==
    [][(/\ resp' # None
        /\ UnknownSession(resp') \/ UnknownDocument(resp')
        /\ (resp'.op = "chat" /\ resp'.status = 400) => resp'.message # <<>>)
          => NotFoundChangesNothing]_vars

\* a rename of a session that does not exist, while another session, a
\* document and its chunks do
C24_Witness ==
    /\ resp # None
    /\ resp.op = "rename_session"
    /\ resp.status = 404
    /\ resp.session_id \notin DOMAIN chat_sessions
    /\ TitleRejected(resp.new_title)
    /\ DOMAIN chat_sessions # {}
    /\ documents # <<>>
    /\ store # {}

\* C25: for every record of the documents list, chunks_count is the number
\* of chunks the vector store holds with that doc_id, after any sequence of
\* uploads, those during which the store write fails included.
C25_ChunksCountMatchesStore ==
    \A i \in 1..Len(documents) :
        documents[i].chunks_count =
            Cardinality({c \in store : c.doc_id = documents[i].id})

\* C26: between requests, after any sequence of chat requests, successful or
\* failed, the message list of every session is a sequence of (user,
\* assistant) pairs and never ends with an unanswered user message.
C26_MessagesArePairs ==
    \A s \in DOMAIN chat_sessions :
        LET m == chat_sessions[s].messages
        IN  /\ Len(m) % 2 = 0
            /\ \A k \in 1..Len(m) :
                  m[k].role = (IF k % 2 = 1 THEN "user" ELSE "assistant")

\* C27: once a rename of a session has succeeded, no later chat request on
\* that session changes its title, so the title of a renamed session is the
\* one its latest successful rename stored; the automatic title is applied
\* only to sessions that were never renamed.
C27_RenamedTitleStays ==
    \A s \in DOMAIN renamed \cap DOMAIN chat_sessions :
        chat_sessions[s].title = renamed[s]

RenameAnswered ==
    /\ resp # None
    /\ resp.op = "rename_session"
    /\ resp.status # 404

\* C28: whenever a rename reports success the stored title of the session is
\* a non-empty string, and every rename whose title is missing, empty or not
\* a string returns 400 and leaves the session title unchanged.
C28_RenameStoresNonEmptyTitle ==
    /\ [](RenameAnswered /\ resp.status = 200
            => chat_sessions[resp.session_id].title # <<>>)
    /\ [][(/\ RenameAnswered'
           /\ \/ resp'.new_title.kind # "str"
              \/ resp'.new_title.text = <<>>)
            => (resp'.status = 400 /\ chat_sessions' = chat_sessions)]_vars

\* C29: under any interleaving of concurrent requests, a document whose
\* upload returned success stays in the shared documents list until a delete
\* of that same document removes it: a concurrent delete of another document
\* never drops it.
C29_NoLostUpload ==
    \A d \in upload_ok \ delete_begun :
        \E i \in 1..Len(documents) : documents[i].id = d

NoRequestInFlight == \A t \in 1..MaxThreads : threads[t].pc = "idle"

\* C30: in app.py, in every state between requests, CURRENT_MODEL_NAME equals
\* rag_system.model_name and is one of AVAILABLE_MODELS; and a set_model
\* request that is rejected (400), is a no-op (already current, 200) or fails
\* while the new RAGSystem is constructed (500) changes neither the
\* rag_system reference nor CURRENT_MODEL_NAME.
C30_ModelNameConsistent ==
    /\ [](NoRequestInFlight =>
            /\ CURRENT_MODEL_NAME = heap[rag_system].model_name.name
            /\ CURRENT_MODEL_NAME \in Range(AVAILABLE_MODELS))
    /\ [][(/\ model_resp' # model_resp
           /\ \/ model_resp'.status \in {400, 500}
              \/ (model_resp'.status = 200 /\ ~model_resp'.changed))
            => (rag_system' = rag_system
                  /\ CURRENT_MODEL_NAME' = CURRENT_MODEL_NAME)]_vars

====
